---- MODULE Spec2Model ----
(***************************************************************************)
(* The transcription request handler of src/main.py as a state machine.    *)
(*                                                                         *)
(* Strings are sequences of tokens: a letter, a "." or a "/" is one token, *)
(* an extension word ("mp3", "WAV") is one token.  The string functions of *)
(* the source (os.path.join, basename, splitext, lower, split, startswith, *)
(* endswith) are computed on these sequences.                              *)
(*                                                                         *)
(* The temp directory is the function fs from the paths that exist to what *)
(* each file holds: who created it, whose audio it carries, and its form.  *)
(* The collaborators (the multipart upload stream, pydub, yt-dlp, the      *)
(* speech recogniser, the operating system) are the environment: each call *)
(* takes one of the outcomes the collaborator can produce.                 *)
(***************************************************************************)
EXTENDS Naturals, Sequences, FiniteSets, TLC

VARIABLES
    fs,                \* the files under UPLOAD_DIR: path -> content
    pc,                \* each request's position in the handler
    file,              \* the uploaded file's name, None when no file part
    video_url,         \* the URL form field, None when absent
    stream,            \* what is left to read in file.file: "full" | "eof"
    temp_file_path,    \* the handler's local, line 37
    audio_file_path,   \* the handler's local, line 38
    transcribed_text,  \* the handler's local, line 35
    error_message,     \* the handler's local, line 36
    caller,            \* who called convert_to_wav: "upload" | "download" | "direct"
    file_path,         \* convert_to_wav's argument
    audio,             \* convert_to_wav's decoded AudioSegment (whose audio it is)
    downloaded_file,   \* download_audio_from_url's local, line 140
    wav_output_path,   \* download_audio_from_url's local, line 123
    called,            \* history: the stages each request has invoked
    removed,           \* history: the paths each request's cleanup removed, in order
    foreign,           \* history: file operations that touched another request's file
    changed,           \* history: the paths each request wrote or removed
    result             \* history: what a direct call of convert_to_wav returned

vars == <<fs, pc, file, video_url, stream, temp_file_path, audio_file_path,
          transcribed_text, error_message, caller, file_path, audio,
          downloaded_file, wav_output_path, called, removed, foreign, changed,
          result>>

\* ------------------------------------------------------------------ bounds

\* How many files earlier (crashed) requests may have left in the temp directory.
MaxLeftover == 1

\* ------------------------------------------------------------------ values

Requests == {"r1", "r2"}

\* Python's None for a path, a file name or a URL; "" for a text.
None == <<>>

NoError == "None"

UPLOAD_DIR == "temp_uploads"

\* ------------------------------------------------------------ string functions

RECURSIVE LastIndexOf(_, _)
\* s.rfind(tok) + 1: the last position of tok in s, 0 when absent.
LastIndexOf(s, tok) ==
    IF s = <<>> THEN 0
    ELSE IF s[Len(s)] = tok THEN Len(s)
    ELSE LastIndexOf(SubSeq(s, 1, Len(s) - 1), tok)

RECURSIVE FirstIndexOf(_, _)
\* s.find(tok) + 1: the first position of tok in s, 0 when absent.
FirstIndexOf(s, tok) ==
    IF s = <<>> THEN 0
    ELSE IF s[1] = tok THEN 1
    ELSE LET i == FirstIndexOf(Tail(s), tok) IN IF i = 0 THEN 0 ELSE i + 1

\* os.path.join(UPLOAD_DIR, name)
Join(dir, name) == <<dir, "/">> \o name

\* os.path.basename(p): what follows the last "/".
Basename(p) == SubSeq(p, LastIndexOf(p, "/") + 1, Len(p))

\* os.path.dirname(p) + "/": up to and including the last "/".
DirPart(p) == SubSeq(p, 1, LastIndexOf(p, "/"))

RECURSIVE LeadingDots(_)
\* How many "." tokens a name starts with.
LeadingDots(s) ==
    IF s = <<>> \/ s[1] # "." THEN 0 ELSE 1 + LeadingDots(Tail(s))

\* The position in the base name where os.path.splitext cuts: the last "." that
\* follows a character that is not a leading ".", else past the end.
SplitAt(b) ==
    LET i == LastIndexOf(b, ".")
    IN  IF i > LeadingDots(b) THEN i ELSE Len(b) + 1

\* os.path.splitext(p)[1]
SplitextExt(p) == LET b == Basename(p) IN SubSeq(b, SplitAt(b), Len(b))

\* os.path.splitext(p)[0]
SplitextRoot(p) == LET b == Basename(p) IN DirPart(p) \o SubSeq(b, 1, SplitAt(b) - 1)

\* str.lower() on one token.
LowerTok(t) ==
    CASE t = "MP3" -> "mp3"
      [] t = "WAV" -> "wav"
      [] t = "HTTPS" -> "https"
      [] OTHER -> t

\* str.lower()
Lower(s) == [i \in 1..Len(s) |-> LowerTok(s[i])]

\* s.split('.')[0]: what precedes the first ".".
SplitDotFirst(s) ==
    LET i == FirstIndexOf(s, ".")
    IN  IF i = 0 THEN s ELSE SubSeq(s, 1, i - 1)

\* s.startswith(prefix)
StartsWith(s, prefix) ==
    /\ Len(prefix) <= Len(s)
    /\ SubSeq(s, 1, Len(prefix)) = prefix

\* s.endswith(suffix)
EndsWith(s, suffix) ==
    /\ Len(suffix) <= Len(s)
    /\ SubSeq(s, Len(s) - Len(suffix) + 1, Len(s)) = suffix

DotWav == <<".", "wav">>

AUDIO_EXTENSIONS == {<<".", "mp3">>, <<".", "wav">>, <<".", "ogg">>, <<".", "flac">>, <<".", "aac">>}

VIDEO_EXTENSIONS == {<<".", "mp4">>, <<".", "mov">>, <<".", "avi">>, <<".", "mkv">>}

\* convert_to_wav, line 102
FileExtension(p) == Lower(SplitextExt(p))

\* convert_to_wav, lines 105-111: whether the extension is on the allow-list.
Supported(p) == FileExtension(p) \in AUDIO_EXTENSIONS \cup VIDEO_EXTENSIONS

\* The output named by os.path.splitext instead of split('.')[0].
OutputWavPathSplitext(p) == Join(UPLOAD_DIR, Basename(SplitextRoot(p)) \o DotWav)

\* convert_to_wav, line 103
OutputWavPath(p) == Join(UPLOAD_DIR, SplitDotFirst(Basename(p)) \o DotWav)

\* ------------------------------------------------------------ is_valid_url

\* A URL is its sequence of tokens: scheme, separator, host labels and dots, then
\* port, path and query.  The tokens' character classes:
AlphaLabels == {"example", "com", "localhost", "intranet", "missing", "colon"}

DigitLabels == {"203", "0", "113", "5", "8080"}

ShortLabels == {"0", "5"}   \* one character long

\* A label of [A-Z0-9](?:[A-Z0-9-]{0,61}[A-Z0-9])?
IsLabel(t) == t \in AlphaLabels \cup DigitLabels

\* (?:[A-Z]{2,6}\.?|[A-Z0-9-]{2,}\.?): a last label of two characters or more.
IsTld(t) == IsLabel(t) /\ t \notin ShortLabels

\* \d{1,3}
IsOctet(t) == t \in DigitLabels /\ t # "8080"

\* Where the host ends: before the first ":" , "/" or "?" after the separator.
HostEnd(u) ==
    LET stops == {i \in 3..Len(u) : u[i] \in {":", "/", "?"}}
    IN  IF stops = {} THEN Len(u) ELSE (CHOOSE i \in stops : \A j \in stops : i <= j) - 1

\* label "." label "." ... tld
IsDomain(h) ==
    /\ Len(h) >= 3
    /\ Len(h) % 2 = 1
    /\ \A i \in 1..Len(h) : IF i % 2 = 0 THEN h[i] = "." ELSE IsLabel(h[i])
    /\ IsTld(h[Len(h)])

\* \d{1,3}\.\d{1,3}\.\d{1,3}\.\d{1,3}
IsIPv4(h) ==
    /\ Len(h) = 7
    /\ \A i \in 1..7 : IF i % 2 = 0 THEN h[i] = "." ELSE IsOctet(h[i])

\* (?::\d+)?(?:/?|[/?]\S+)$
IsTail(t) ==
    LET afterPort == IF Len(t) >= 2 /\ t[1] = ":" /\ t[2] \in DigitLabels
                     THEN SubSeq(t, 3, Len(t)) ELSE t
    IN  \/ afterPort = <<>>
        \/ afterPort = <<"/">>
        \/ /\ Len(afterPort) >= 2
           /\ afterPort[1] \in {"/", "?"}
           /\ \A i \in 2..Len(afterPort) : afterPort[i] # " "

\* The validator reduced to its scheme test.
is_valid_url_scheme_only(u) ==
    /\ Len(u) >= 1
    /\ LowerTok(u[1]) \in {"http", "https", "ftp", "ftps"}

\* is_valid_url, lines 183-191
is_valid_url(u) ==
    /\ Len(u) >= 3
    /\ LowerTok(u[1]) \in {"http", "https", "ftp", "ftps"}
    /\ u[2] = "://"
    /\ LET h == SubSeq(u, 3, HostEnd(u))
       IN  \/ h = <<"localhost">>
           \/ IsIPv4(h)
           \/ IsDomain(h)
    /\ IsTail(SubSeq(u, HostEnd(u) + 1, Len(u)))

\* ------------------------------------------------------------------ inputs

EmptyStr == <<"">>

\* "is not None" in place of Python's truth.
TruthyNotNone(s) == s # None

\* Python's truth of a str-or-None
Truthy(s) == s # None /\ s # EmptyStr

\* The names the uploads are drawn from; "." names the temp directory itself.
UploadNames ==
    { <<"a", ".", "mp3">>, <<"a", ".", "mp4">>, <<"a", ".", "wav">>,
      <<"a", ".", "txt">>, <<".">> }

GoodUrl == <<"https", "://", "example", ".", "com", "/", "video">>

\* "not a url" and "http//missing-colon"
BadUrls ==
    { <<"not", " ", "a", " ", "url">>,
      <<"http", "//", "missing", "-", "colon">> }

\* The URL form fields the requests are drawn from.
Urls == {GoodUrl} \cup BadUrls

\* What the extraction backend may name its output: %(id)s.%(ext)s
VideoIds == { <<"a">>, <<"a", "b">> }

VideoExts == { "webm", "mp3", "wav" }

\* Files an earlier request may have left behind.
LeftoverNames == { <<"a", "b", ".", "wav">>, <<"a", ".", "wav">> }

\* ------------------------------------------------------------ file system

IsDirectory(p) == Basename(p) \in { <<>>, <<".">>, <<"..">> }

\* os.path.exists
Exists(p) == p \in DOMAIN fs \/ IsDirectory(p)

Content(creator, data, form) == [creator |-> creator, data |-> data, form |-> form]

WriteFile(f, p, c) == [q \in DOMAIN f \cup {p} |-> IF q = p THEN c ELSE f[q]]

RemoveFile(f, p) == [q \in DOMAIN f \ {p} |-> f[q]]

\* Whether an operation of request r on path p touches a file another request made.
Foreign(r, p) == p \in DOMAIN fs /\ fs[p].creator \in Requests \ {r}

\* A file pydub or the recogniser can read as audio.
Decodable(p) == p \in DOMAIN fs /\ fs[p].form \in {"raw", "wav"}

LeftoverDirs ==
    { [p \in {Join(UPLOAD_DIR, n) : n \in S} |-> Content("old", "old", "wav")] :
        S \in {T \in SUBSET LeftoverNames : Cardinality(T) <= MaxLeftover} }

\* ------------------------------------------------------------------- messages

MsgNoInput == "No file or video URL provided."

MsgInvalidUrl == "Invalid URL provided."

MsgNoConvert == "Could not convert file to audio."

MsgNoDownload == "Could not download audio from the provided URL."

MsgUnexpected == "An unexpected error occurred"

TextNotUnderstood == <<"Google Speech Recognition could not understand audio">>

TextRequestError == <<"Could not request results from Google Speech Recognition service">>

TextOtherError == <<"Error during transcription">>

\* What the recogniser returns for the audio of `data`.
Transcription(data) == <<"transcription", data>>

\* ------------------------------------------------------------------- initial

Init ==
    /\ fs \in LeftoverDirs
    /\ pc = [r \in Requests |-> "idle"]
    /\ file = [r \in Requests |-> None]
    /\ video_url = [r \in Requests |-> None]
    /\ stream = [r \in Requests |-> "full"]
    /\ temp_file_path = [r \in Requests |-> None]
    /\ audio_file_path = [r \in Requests |-> None]
    /\ transcribed_text = [r \in Requests |-> <<>>]
    /\ error_message = [r \in Requests |-> NoError]
    /\ caller = [r \in Requests |-> "none"]
    /\ file_path = [r \in Requests |-> None]
    /\ audio = [r \in Requests |-> "none"]
    /\ downloaded_file = [r \in Requests |-> None]
    /\ wav_output_path = [r \in Requests |-> None]
    /\ called = [r \in Requests |-> {}]
    /\ removed = [r \in Requests |-> <<>>]
    /\ foreign = [r \in Requests |-> FALSE]
    /\ changed = [r \in Requests |-> {}]
    /\ result = [r \in Requests |-> None]

\* ------------------------------------------------------------------- handler

Goto(r, label) == pc' = [pc EXCEPT ![r] = label]

Call(r, stage) == called' = [called EXCEPT ![r] = @ \cup {stage}]

Touch(r, p) == foreign' = [foreign EXCEPT ![r] = @ \/ Foreign(r, p)]

Change(r, paths) == changed' = [changed EXCEPT ![r] = @ \cup paths]

\* except HTTPException / except Exception, lines 77-82: on to the finally block.
Fail(r, msg) ==
    /\ error_message' = [error_message EXCEPT ![r] = msg]
    /\ Goto(r, "cleanup_temp_check")

\* The request arrives with its form fields; lines 41, 59-62, 69-70.
Receive(r) ==
    /\ pc[r] = "idle"
    /\ \E f \in UploadNames \cup {None}, u \in Urls \cup {None, EmptyStr} :
        /\ f # None => u \in Urls \cup {None}
        /\ file' = [file EXCEPT ![r] = f]
        /\ video_url' = [video_url EXCEPT ![r] = u]
        /\ IF f # None
           THEN /\ Goto(r, "save1")
                /\ UNCHANGED <<error_message, called>>
           ELSE IF Truthy(u)
           THEN /\ Call(r, "validator")
                /\ IF is_valid_url(u)
                   THEN Goto(r, "download") /\ UNCHANGED error_message
                   ELSE Fail(r, MsgInvalidUrl)
           ELSE /\ Fail(r, MsgNoInput)
                /\ UNCHANGED called
    /\ UNCHANGED <<fs, stream, temp_file_path, audio_file_path, transcribed_text,
                   caller, file_path, audio, downloaded_file, wav_output_path,
                   removed, foreign, changed, result>>

\* The copy as it would be with file.file rewound before each copy.
SavedFormRewound(r) == "raw"

\* shutil.copyfileobj(file.file, buffer), lines 45 and 50: it copies what is left
\* of file.file from its current position, and leaves file.file at its end.
SavedForm(r) == IF stream[r] = "full" THEN "raw" ELSE "empty"

\* Lines 43-45 and again 48-50: open(temp_file_path, "wb") truncates the file and
\* shutil.copyfileobj copies what is left of file.file, which the first copy
\* leaves at its end: the second copy leaves the saved upload empty.
SaveUpload(r, here, next) ==
    /\ pc[r] = here
    /\ LET p == Join(UPLOAD_DIR, file[r]) IN
        /\ temp_file_path' = [temp_file_path EXCEPT ![r] = p]
        /\ \E outcome \in {"saved", "open_fails", "copy_fails"} :
            IF IsDirectory(p) \/ outcome = "open_fails"
            THEN /\ Fail(r, MsgUnexpected)
                 /\ UNCHANGED <<fs, stream, foreign, changed>>
            ELSE /\ Touch(r, p)
                 /\ Change(r, {p})
                 /\ stream' = [stream EXCEPT ![r] = "eof"]
                 /\ IF outcome = "saved"
                    THEN /\ fs' = WriteFile(fs, p, Content(r, r, SavedForm(r)))
                         /\ Goto(r, next)
                         /\ UNCHANGED error_message
                    ELSE /\ fs' = WriteFile(fs, p, Content(r, r, "partial"))
                         /\ Fail(r, MsgUnexpected)
    /\ UNCHANGED <<file, video_url, audio_file_path, transcribed_text, caller,
                   file_path, audio, downloaded_file, wav_output_path, called,
                   removed, result>>

Save1(r) == SaveUpload(r, "save1", "save2")

Save2(r) == SaveUpload(r, "save2", "convert")

\* Line 54: audio_file_path = convert_to_wav(temp_file_path)
CallConvertUpload(r) ==
    /\ pc[r] = "convert"
    /\ caller' = [caller EXCEPT ![r] = "upload"]
    /\ file_path' = [file_path EXCEPT ![r] = temp_file_path[r]]
    /\ Call(r, "normalizer")
    /\ Goto(r, "conv_decode")
    /\ UNCHANGED <<fs, file, video_url, stream, temp_file_path, audio_file_path,
                   transcribed_text, error_message, audio, downloaded_file,
                   wav_output_path, removed, foreign, changed, result>>

\* The handler without the test of the acquired path.
NoArtifactUnchecked(ret) == FALSE

\* "if not audio_file_path", lines 55 and 66.
NoArtifact(ret) == ret = None

\* What the caller does with download_audio_from_url's return value, lines 65-68.
AcquirerReturns(r, ret) ==
    /\ audio_file_path' = [audio_file_path EXCEPT ![r] = ret]
    /\ IF NoArtifact(ret)
       THEN Fail(r, MsgNoDownload)
       ELSE Goto(r, "transcribe") /\ UNCHANGED error_message

\* What the caller does with convert_to_wav's return value: lines 54-57 for an
\* upload, line 153 in the acquirer.
ConvertReturns(r, ret) ==
    CASE caller[r] = "upload" ->
            /\ audio_file_path' = [audio_file_path EXCEPT ![r] = ret]
            /\ IF NoArtifact(ret)
               THEN Fail(r, MsgNoConvert)
               ELSE Goto(r, "transcribe") /\ UNCHANGED error_message
            /\ UNCHANGED <<wav_output_path, result>>
      [] caller[r] = "download" ->
            /\ wav_output_path' = [wav_output_path EXCEPT ![r] = ret]
            /\ Goto(r, "dl_exists")
            /\ UNCHANGED <<audio_file_path, error_message, result>>
      [] OTHER ->
            /\ result' = [result EXCEPT ![r] = ret]
            /\ Goto(r, "returned")
            /\ UNCHANGED <<audio_file_path, error_message, wav_output_path>>

\* convert_to_wav, lines 102-111: the extension test and AudioSegment.from_file.
ConvertDecode(r) ==
    /\ pc[r] = "conv_decode"
    /\ \E outcome \in {"decoded", "decode_error"} :
        IF Supported(file_path[r]) /\ outcome = "decoded" /\ Decodable(file_path[r])
        THEN /\ audio' = [audio EXCEPT ![r] = fs[file_path[r]].data]
             /\ Touch(r, file_path[r])
             /\ Goto(r, "conv_export")
             /\ UNCHANGED <<audio_file_path, error_message, wav_output_path, result>>
        ELSE /\ ConvertReturns(r, None)
             /\ UNCHANGED <<audio, foreign>>
    /\ UNCHANGED <<fs, file, video_url, stream, temp_file_path, transcribed_text,
                   caller, file_path, downloaded_file, called, removed, changed>>

\* convert_to_wav, lines 113-118: audio.export(output_wav_path, format="wav").
ConvertExport(r) ==
    /\ pc[r] = "conv_export"
    /\ LET out == OutputWavPath(file_path[r]) IN
       \E outcome \in {"exported", "export_error", "export_error_midway"} :
        CASE outcome = "exported" ->
                /\ fs' = WriteFile(fs, out, Content(r, audio[r], "wav"))
                /\ Touch(r, out)
                /\ Change(r, {out})
                /\ ConvertReturns(r, out)
          [] outcome = "export_error" ->
                /\ ConvertReturns(r, None)
                /\ UNCHANGED <<fs, foreign, changed>>
          [] OTHER ->
                /\ fs' = WriteFile(fs, out, Content(r, audio[r], "partial"))
                /\ Touch(r, out)
                /\ Change(r, {out})
                /\ ConvertReturns(r, None)
    /\ UNCHANGED <<file, video_url, stream, temp_file_path, transcribed_text,
                   caller, file_path, audio, downloaded_file, called, removed>>

\* ------------------------------------------------------------------ acquirer

\* download_audio_from_url, lines 125-141 and 159-161: ydl.extract_info downloads
\* %(id)s.%(ext)s and FFmpegExtractAudio turns it into %(id)s.wav.  The backend
\* either raises (having written nothing, or having left the file it downloaded)
\* or returns, having left the WAV or only the file it downloaded.
Download(r) ==
    /\ pc[r] = "download"
    /\ Call(r, "acquirer")
    /\ \E id \in VideoIds, ext \in VideoExts,
          outcome \in {"error", "error_after_download", "wav", "original_only"} :
        LET orig == Join(UPLOAD_DIR, id \o <<".", ext>>)
            wav  == Join(UPLOAD_DIR, id \o DotWav)
        IN  CASE outcome = "error" ->
                    /\ AcquirerReturns(r, None)
                    /\ UNCHANGED <<fs, foreign, changed, downloaded_file>>
              [] outcome = "error_after_download" ->
                    /\ fs' = WriteFile(fs, orig, Content(r, r, "raw"))
                    /\ Touch(r, orig)
                    /\ Change(r, {orig})
                    /\ AcquirerReturns(r, None)
                    /\ UNCHANGED downloaded_file
              [] outcome = "wav" ->
                    /\ fs' = WriteFile(IF orig = wav THEN fs ELSE RemoveFile(fs, orig),
                                       wav, Content(r, r, "wav"))
                    /\ foreign' = [foreign EXCEPT ![r] = @ \/ Foreign(r, orig) \/ Foreign(r, wav)]
                    /\ Change(r, {orig, wav})
                    /\ downloaded_file' = [downloaded_file EXCEPT ![r] = orig]
                    /\ Goto(r, "listdir")
                    /\ UNCHANGED <<audio_file_path, error_message>>
              [] OTHER ->
                    /\ fs' = WriteFile(fs, orig, Content(r, r, IF orig = wav THEN "wav" ELSE "raw"))
                    /\ Touch(r, orig)
                    /\ Change(r, {orig})
                    /\ downloaded_file' = [downloaded_file EXCEPT ![r] = orig]
                    /\ Goto(r, "listdir")
                    /\ UNCHANGED <<audio_file_path, error_message>>
    /\ UNCHANGED <<file, video_url, stream, temp_file_path, transcribed_text, caller,
                   file_path, audio, wav_output_path, removed, result>>

\* The files the name-matching heuristic of lines 145-146 accepts.
WavMatches(r) ==
    LET base == Basename(SplitextRoot(downloaded_file[r]))
    IN  { p \in DOMAIN fs : /\ DirPart(p) = <<UPLOAD_DIR, "/">>
                            /\ StartsWith(Basename(p), base)
                            /\ EndsWith(Basename(p), DotWav) }

\* Lines 143-148: the first match in os.listdir's order, which is arbitrary.
ListDir(r) ==
    /\ pc[r] = "listdir"
    /\ IF WavMatches(r) = {}
       THEN UNCHANGED wav_output_path
       ELSE \E p \in WavMatches(r) :
                wav_output_path' = [wav_output_path EXCEPT ![r] = Join(UPLOAD_DIR, Basename(p))]
    /\ Goto(r, "check_wav")
    /\ UNCHANGED <<fs, file, video_url, stream, temp_file_path, audio_file_path,
                   transcribed_text, error_message, caller, file_path, audio,
                   downloaded_file, called, removed, foreign, changed, result>>

\* Lines 150-153 and 157-158: return the WAV found, else fall back to
\* convert_to_wav(downloaded_file).
CheckWav(r) ==
    /\ pc[r] = "check_wav"
    /\ IF wav_output_path[r] = None \/ ~Exists(wav_output_path[r])
       THEN /\ caller' = [caller EXCEPT ![r] = "download"]
            /\ file_path' = [file_path EXCEPT ![r] = downloaded_file[r]]
            /\ Call(r, "normalizer")
            /\ Goto(r, "conv_decode")
            /\ UNCHANGED <<audio_file_path, error_message>>
       ELSE /\ AcquirerReturns(r, wav_output_path[r])
            /\ UNCHANGED <<caller, file_path, called>>
    /\ UNCHANGED <<fs, file, video_url, stream, temp_file_path, transcribed_text,
                   audio, downloaded_file, wav_output_path, removed, foreign, changed,
                   result>>

\* Line 154: if os.path.exists(downloaded_file)
DownloadedExists(r) ==
    /\ pc[r] = "dl_exists"
    /\ IF Exists(downloaded_file[r])
       THEN /\ Goto(r, "dl_remove")
            /\ UNCHANGED <<audio_file_path, error_message>>
       ELSE AcquirerReturns(r, wav_output_path[r])
    /\ UNCHANGED <<fs, file, video_url, stream, temp_file_path, transcribed_text,
                   caller, file_path, audio, downloaded_file, wav_output_path,
                   called, removed, foreign, changed, result>>

\* Line 155: os.remove(downloaded_file), whose FileNotFoundError the except of
\* line 159 turns into a None result.
DownloadedRemove(r) ==
    /\ pc[r] = "dl_remove"
    /\ IF downloaded_file[r] \in DOMAIN fs
       THEN /\ fs' = RemoveFile(fs, downloaded_file[r])
            /\ Touch(r, downloaded_file[r])
            /\ Change(r, {downloaded_file[r]})
            /\ AcquirerReturns(r, wav_output_path[r])
       ELSE /\ AcquirerReturns(r, None)
            /\ UNCHANGED <<fs, foreign, changed>>
    /\ UNCHANGED <<file, video_url, stream, temp_file_path, transcribed_text, caller,
                   file_path, audio, downloaded_file, wav_output_path, called,
                   removed, result>>

\* ---------------------------------------------------------------- transcriber

\* transcribe_audio without its last except clause.
TranscriberCatchesNamedOnly == {"UnknownValueError", "RequestError"}

\* transcribe_audio's except clauses, lines 173-181.
TranscriberCatches == {"UnknownValueError", "RequestError", "Exception"}

\* Lines 74 and 163-181: sr.AudioFile reads the WAV, recognize_google answers;
\* every exception becomes the returned text.
Transcribe(r) ==
    /\ pc[r] = "transcribe"
    /\ Call(r, "transcriber")
    /\ LET p == audio_file_path[r]
           readable == p \in DOMAIN fs /\ fs[p].form = "wav"
       IN  /\ \E outcome \in {"recognized", "UnknownValueError", "RequestError", "Exception"} :
                LET raised == IF readable THEN outcome ELSE "Exception" IN
                IF raised = "recognized"
                THEN /\ transcribed_text' = [transcribed_text EXCEPT ![r] = Transcription(fs[p].data)]
                     /\ Goto(r, "cleanup_temp_check")
                     /\ UNCHANGED error_message
                ELSE IF raised \in TranscriberCatches
                THEN /\ transcribed_text' = [transcribed_text EXCEPT ![r] =
                            CASE raised = "UnknownValueError" -> TextNotUnderstood
                              [] raised = "RequestError" -> TextRequestError
                              [] OTHER -> TextOtherError]
                     /\ Goto(r, "cleanup_temp_check")
                     /\ UNCHANGED error_message
                ELSE /\ Fail(r, MsgUnexpected)
                     /\ UNCHANGED transcribed_text
           /\ foreign' = [foreign EXCEPT ![r] = @ \/ (readable /\ Foreign(r, p))]
    /\ UNCHANGED <<fs, file, video_url, stream, temp_file_path, audio_file_path,
                   caller, file_path, audio, downloaded_file,
                   wav_output_path, removed, changed, result>>

\* -------------------------------------------------------------------- cleanup

\* os.remove(p) inside the finally block: it raises on a path that is gone
\* (FileNotFoundError) or is a directory (IsADirectoryError), and nothing in the
\* finally block catches it: the exception leaves the handler before line 92.
CleanupRemove(r, p, next) ==
    IF p \in DOMAIN fs
    THEN /\ fs' = RemoveFile(fs, p)
         /\ removed' = [removed EXCEPT ![r] = Append(@, p)]
         /\ Touch(r, p)
         /\ Change(r, {p})
         /\ Goto(r, next)
    ELSE /\ Goto(r, "escaped")
         /\ UNCHANGED <<fs, removed, foreign, changed>>

\* Line 85: if temp_file_path and os.path.exists(temp_file_path)
CleanupTempCheck(r) ==
    /\ pc[r] = "cleanup_temp_check"
    /\ Call(r, "cleanup")
    /\ IF temp_file_path[r] # None /\ Exists(temp_file_path[r])
       THEN Goto(r, "cleanup_temp_remove")
       ELSE Goto(r, "cleanup_audio_check")
    /\ UNCHANGED <<fs, file, video_url, stream, temp_file_path, audio_file_path,
                   transcribed_text, error_message, caller, file_path, audio,
                   downloaded_file, wav_output_path, removed, foreign, changed, result>>

\* Line 86: os.remove(temp_file_path)
CleanupTempRemove(r) ==
    /\ pc[r] = "cleanup_temp_remove"
    /\ CleanupRemove(r, temp_file_path[r], "cleanup_audio_check")
    /\ UNCHANGED <<file, video_url, stream, temp_file_path, audio_file_path,
                   transcribed_text, error_message, caller, file_path, audio,
                   downloaded_file, wav_output_path, called, result>>

\* Line 88: if audio_file_path and os.path.exists(audio_file_path); else the
\* return of lines 92-96.
CleanupAudioCheck(r) ==
    /\ pc[r] = "cleanup_audio_check"
    /\ IF audio_file_path[r] # None /\ Exists(audio_file_path[r])
       THEN Goto(r, "cleanup_audio_remove")
       ELSE Goto(r, "done")
    /\ UNCHANGED <<fs, file, video_url, stream, temp_file_path, audio_file_path,
                   transcribed_text, error_message, caller, file_path, audio,
                   downloaded_file, wav_output_path, called, removed, foreign, changed,
                   result>>

\* Line 89: os.remove(audio_file_path), then the return of lines 92-96.
CleanupAudioRemove(r) ==
    /\ pc[r] = "cleanup_audio_remove"
    /\ CleanupRemove(r, audio_file_path[r], "done")
    /\ UNCHANGED <<file, video_url, stream, temp_file_path, audio_file_path,
                   transcribed_text, error_message, caller, file_path, audio,
                   downloaded_file, wav_output_path, called, result>>

\* ------------------------------------------------------------- specification

Step(r) ==
    \/ Receive(r)
    \/ Save1(r)
    \/ Save2(r)
    \/ CallConvertUpload(r)
    \/ ConvertDecode(r)
    \/ ConvertExport(r)
    \/ Download(r)
    \/ ListDir(r)
    \/ CheckWav(r)
    \/ DownloadedExists(r)
    \/ DownloadedRemove(r)
    \/ Transcribe(r)
    \/ CleanupTempCheck(r)
    \/ CleanupTempRemove(r)
    \/ CleanupAudioCheck(r)
    \/ CleanupAudioRemove(r)

Next == \E r \in Requests : Step(r)

\* Two requests served at once, their steps interleaved.
Spec == Init /\ [][Next]_vars

\* ------------------------------------------------- the normalizer on its own

\* The paths convert_to_wav is applied to when called on its own.
NormalizerNames ==
    { <<"a", ".", "mp3">>, <<"a", ".", "MP3">>, <<"a", ".", "wav">>, <<"a", ".", "WAV">>,
      <<"a", ".", "b", ".", "mp3">>, <<"a", "b", ".", "mkv">>, <<"a", ".", "txt">> }

InitNormalizer ==
    /\ fs \in { [p \in {Join(UPLOAD_DIR, n) : n \in S} |-> Content("old", Basename(p), "raw")] :
                 S \in {T \in SUBSET NormalizerNames : Cardinality(T) <= MaxLeftover + 1} }
    /\ pc = [r \in Requests |-> "idle"]
    /\ file = [r \in Requests |-> None]
    /\ video_url = [r \in Requests |-> None]
    /\ stream = [r \in Requests |-> "full"]
    /\ temp_file_path = [r \in Requests |-> None]
    /\ audio_file_path = [r \in Requests |-> None]
    /\ transcribed_text = [r \in Requests |-> <<>>]
    /\ error_message = [r \in Requests |-> NoError]
    /\ caller = [r \in Requests |-> "none"]
    /\ file_path = [r \in Requests |-> None]
    /\ audio = [r \in Requests |-> "none"]
    /\ downloaded_file = [r \in Requests |-> None]
    /\ wav_output_path = [r \in Requests |-> None]
    /\ called = [r \in Requests |-> {}]
    /\ removed = [r \in Requests |-> <<>>]
    /\ foreign = [r \in Requests |-> FALSE]
    /\ changed = [r \in Requests |-> {}]
    /\ result = [r \in Requests |-> None]

\* convert_to_wav(p), line 98, called directly.
CallConvert(r) ==
    /\ pc[r] = "idle"
    /\ \E n \in NormalizerNames :
        file_path' = [file_path EXCEPT ![r] = Join(UPLOAD_DIR, n)]
    /\ caller' = [caller EXCEPT ![r] = "direct"]
    /\ Call(r, "normalizer")
    /\ Goto(r, "conv_decode")
    /\ UNCHANGED <<fs, file, video_url, stream, temp_file_path, audio_file_path,
                   transcribed_text, error_message, audio, downloaded_file,
                   wav_output_path, removed, foreign, changed, result>>

NextNormalizer ==
    \/ CallConvert("r1")
    \/ ConvertDecode("r1")
    \/ ConvertExport("r1")

\* One call of convert_to_wav on a directory holding arbitrary media files.
SpecNormalizer == InitNormalizer /\ [][NextNormalizer]_vars

\* ------------------------------------------------------------------- claims

\* The handler has returned its response (line 92) or an exception has left it.
Returned(r) == pc[r] = "done"

Escaped(r) == pc[r] = "escaped"

\* Request r runs in isolation: no other request has arrived.
Alone(r) == \A o \in Requests \ {r} : pc[o] = "idle"

\* The files in the temp directory that request r created.
FilesOf(r) == {p \in DOMAIN fs : fs[p].creator = r}

\* C1: when the handler of a request run in isolation returns, no file that the
\* request created in the temp directory still exists, whatever stage failed.
C1_NoFileLeftBehind ==
    \A r \in Requests : (Returned(r) /\ Alone(r)) => FilesOf(r) = {}

\* C3: the cleanup step never raises and removes no artifact twice, on every
\* exit path: also when a tracked path is already gone or was never created.
C3_CleanupNeverRaises ==
    \A r \in Requests :
        /\ ~Escaped(r)
        /\ \A i, j \in 1..Len(removed[r]) : removed[r][i] = removed[r][j] => i = j

\* C4: every invocation of the handler ends by returning a rendered response,
\* cleanup having run; no exception leaves the handler.
C4_AlwaysRendersResponse ==
    \A r \in Requests :
        /\ pc[r] # "escaped"
        /\ Returned(r) => "cleanup" \in called[r]

\* The acquirer of request r is running.
InAcquirer(r) ==
    /\ file[r] = None
    /\ pc[r] \in {"download", "listdir", "check_wav", "conv_decode", "conv_export",
                  "dl_exists", "dl_remove"}

InNormalizer(r) == pc[r] \in {"conv_decode", "conv_export"}

C5_NoInputShortCircuits ==
    \A r \in Requests :
        (pc[r] # "idle" /\ file[r] = None /\ video_url[r] \in {None, EmptyStr}) =>
            /\ error_message[r] = MsgNoInput
            /\ transcribed_text[r] = <<>>
            /\ called[r] \subseteq {"cleanup"}
            /\ changed[r] = {}
            /\ FilesOf(r) = {}
            /\ ~Escaped(r)

\* A request with the empty string for a URL has returned, the leftover file of
\* the temp directory still in place.
C5_Witness ==
    \E r \in Requests :
        /\ Returned(r) /\ file[r] = None /\ video_url[r] = EmptyStr
        /\ \E p \in DOMAIN fs : fs[p].creator = "old"

\* C6: the acquirer runs only for a request without a file whose URL passed the
\* validator; with a file the URL, valid or not, is neither validated nor
\* downloaded; without a file a URL the validator rejects ends in "Invalid URL
\* provided." with no download and no file.
C6_AcquirerOnlyAfterValidation ==
    \A r \in Requests :
        /\ file[r] # None =>
                /\ called[r] \cap {"validator", "acquirer"} = {}
                /\ error_message[r] \notin {MsgInvalidUrl, MsgNoDownload}
        /\ "acquirer" \in called[r] =>
                file[r] = None /\ "validator" \in called[r] /\ video_url[r] \notin BadUrls
        /\ (file[r] = None /\ video_url[r] \in BadUrls) =>
                /\ error_message[r] = MsgInvalidUrl
                /\ "acquirer" \notin called[r]
                /\ changed[r] = {}
                /\ FilesOf(r) = {}

\* One request with a bad URL and one with a file and a bad URL have both returned.
C6_Witness ==
    \E r, o \in Requests :
        /\ Returned(r) /\ file[r] = None /\ video_url[r] \in BadUrls
        /\ Returned(o) /\ file[o] # None /\ video_url[o] \in BadUrls

\* C7: when the normalizer returns nothing for an upload, or the acquirer returns
\* nothing for a URL, the response carries the acquisition-failure message, the
\* transcriber is never invoked, the text stays empty, and on return the saved
\* upload is gone; run alone, the handler does return.
C7_NoArtifactMeansError ==
    \A r \in Requests :
        /\ (caller[r] = "upload" /\ ~InNormalizer(r) /\ audio_file_path[r] = None) =>
                /\ error_message[r] = MsgNoConvert
                /\ "transcriber" \notin called[r]
                /\ transcribed_text[r] = <<>>
                /\ Returned(r) => temp_file_path[r] \notin FilesOf(r)
                /\ Alone(r) => ~Escaped(r)
        /\ ("acquirer" \in called[r] /\ ~InAcquirer(r) /\ audio_file_path[r] = None) =>
                /\ error_message[r] = MsgNoDownload
                /\ "transcriber" \notin called[r]
                /\ transcribed_text[r] = <<>>
                /\ ~Escaped(r)

\* An upload with the unsupported extension .txt has returned with the conversion
\* error, its saved file removed.
C7_Witness ==
    \E r \in Requests :
        /\ Returned(r) /\ file[r] = <<"a", ".", "txt">>
        /\ error_message[r] = MsgNoConvert
        /\ removed[r] = <<temp_file_path[r]>>

\* C8: once an artifact is acquired, every outcome of the transcriber, failures
\* included, is the transcribed text of the response and no error; cleanup runs
\* and on return the artifact is gone; run alone, the handler does return.
C8_TranscriberFailureIsText ==
    \A r \in Requests :
        "transcriber" \in called[r] =>
            /\ audio_file_path[r] # None
            /\ error_message[r] = NoError
            /\ transcribed_text[r] \in {TextNotUnderstood, TextRequestError, TextOtherError}
                                       \cup {Transcription(d) : d \in Requests \cup {"old"}}
            /\ Returned(r) => "cleanup" \in called[r] /\ audio_file_path[r] \notin FilesOf(r)
            /\ Alone(r) => ~Escaped(r)

\* The recogniser raised, the handler returned the failure as text and removed
\* the artifact.
C8_Witness ==
    \E r \in Requests :
        /\ Returned(r)
        /\ transcribed_text[r] = TextOtherError
        /\ audio_file_path[r] # None
        /\ removed[r] = <<audio_file_path[r]>>

\* C9 as stated: for an input with an allow-listed extension whose decode and
\* encode succeed, the normalizer returns a newly created file of the temp
\* directory, distinct from the input and named after the input's base name
\* (the name without its extension) with .wav; the input stays in place,
\* unmodified.
C9_OutputDistinctFromInput ==
    \A r \in Requests :
        (pc[r] = "returned" /\ result[r] # None) =>
            /\ DirPart(result[r]) = <<UPLOAD_DIR, "/">>
            /\ result[r] \in FilesOf(r)
            /\ result[r] # file_path[r]
            /\ Basename(result[r]) = Basename(SplitextRoot(file_path[r])) \o DotWav
            /\ file_path[r] \in DOMAIN fs
            /\ fs[file_path[r]] = Content("old", Basename(file_path[r]), "raw")

\* C9 as amended: the normalizer returns the temp-directory path named by the part
\* of the input's file name before its first "." with .wav; that file then holds
\* the WAV encoding of the input's audio, written by this call; no other file
\* changes, so the input stays in place and unmodified unless it is itself that
\* path, which only an input named <stem>.wav is.
C9_OutputNamedByFirstSegment ==
    \A r \in Requests :
        (pc[r] = "returned" /\ result[r] # None) =>
            LET in  == file_path[r]
                out == result[r]
            IN  /\ DirPart(out) = <<UPLOAD_DIR, "/">>
                /\ Basename(out) = SplitDotFirst(Basename(in)) \o DotWav
                /\ out \in DOMAIN fs
                /\ fs[out] = Content(r, Basename(in), "wav")
                /\ changed[r] = {out}
                /\ \A q \in DOMAIN fs \ {out} : fs[q] = Content("old", Basename(q), "raw")
                /\ out # in => in \in DOMAIN fs
                /\ out = in => EndsWith(Basename(in), DotWav)

\* convert_to_wav has returned the path a.wav for the input a.b.mp3, which is
\* still in place.
C9_Witness ==
    \E r \in Requests :
        /\ pc[r] = "returned"
        /\ file_path[r] = Join(UPLOAD_DIR, <<"a", ".", "b", ".", "mp3">>)
        /\ result[r] = Join(UPLOAD_DIR, <<"a", ".", "wav">>)
        /\ file_path[r] \in DOMAIN fs /\ result[r] \in DOMAIN fs

\* C10: in the acquirer, the WAV the name-matching heuristic selects is a file
\* this request produced; in the fallback the intermediate file is removed only
\* if the normalizer returned an artifact, and the acquirer's result is the
\* normalizer's result.
C10_FallbackAndHeuristic ==
    \A r \in Requests :
        /\ (pc[r] = "check_wav" /\ wav_output_path[r] # None) =>
                wav_output_path[r] \in FilesOf(r)
        /\ pc[r] = "dl_remove" => wav_output_path[r] # None
        /\ (caller[r] = "download" /\ ~InAcquirer(r)) =>
                audio_file_path[r] = wav_output_path[r]

====
